---------------------------- MODULE Spec2Model ----------------------------
(***************************************************************************)
(* Steady: the two React front ends of the repository as state machines.   *)
(*                                                                         *)
(*  - frontend2 (App with login -> onboarding -> five main screens, the    *)
(*    weekly goal kept in React state and in localStorage);                *)
(*  - frontend  (the earlier prototype: a login gate and a string-keyed    *)
(*    switch over five screens).                                           *)
(*                                                                         *)
(* JavaScript strings are sequences of one-character strings, so that      *)
(* String(n) and parseInt(s, 10) are computed, not assumed.  A value that  *)
(* may be null is a sequence of length 0 (null) or 1 (the value).          *)
(***************************************************************************)
EXTENDS Integers, Sequences, FiniteSets

VARIABLES
    currentScreen,   \* frontend2 App: useState<AppScreen>('login')
    weeklyGoal,      \* frontend2 App: useState(() => ... localStorage ...)
    userData,        \* frontend2 App: useState<OnboardingData | null>(null)
    localStorage,    \* window.localStorage: key -> string
    onboarding,      \* OnboardingScreen local state while mounted
    profile,         \* frontend2 ProfileScreen local state while mounted
    forecastDetail,  \* ForecastDetailScreen local state while mounted
    trends,          \* frontend2 TrendsScreen local state while mounted
    fCurrentScreen,  \* frontend App: useState('dashboard')
    isLoggedIn,      \* frontend App: useState(false)
    fProfile         \* frontend ProfileScreen local state while mounted

vars == <<currentScreen, weeklyGoal, userData, localStorage, onboarding,
          profile, forecastDetail, trends, fCurrentScreen, isLoggedIn, fProfile>>

f2vars == <<currentScreen, weeklyGoal, userData, localStorage, onboarding,
            profile, forecastDetail, trends>>

fvars == <<fCurrentScreen, isLoggedIn, fProfile>>

---------------------------------------------------------------------------
(* Bounds of the model *)

\* how many slider positions the user is offered as inputs in frontend2
MaxSliderInputs == 3
\* the offered positions are SampleStride steps apart (wrapping around)
SampleStride == 7
\* how many of the onboarding zone / day chips the user may toggle
MaxZones == 1
MaxDays == 1
\* largest goal for which the pure forecast arithmetic is checked
MaxGoal == 2400

---------------------------------------------------------------------------
(* JavaScript values *)

Unmounted == [mounted |-> FALSE]

DigitChars == <<"0", "1", "2", "3", "4", "5", "6", "7", "8", "9">>

IsDigit(c) == \E d \in 1..10 : DigitChars[d] = c

DigitValue(c) == (CHOOSE d \in 1..10 : DigitChars[d] = c) - 1

WhiteSpace == {" "}

RECURSIVE NatToString(_)
NatToString(n) ==
    IF n < 10 THEN <<DigitChars[n + 1]>>
    ELSE NatToString(n \div 10) \o <<DigitChars[(n % 10) + 1]>>

\* String(n) for an integer n
ToString(n) == IF n < 0 THEN <<"-">> \o NatToString(-n) ELSE NatToString(n)

RECURSIVE TrimLeft(_)
TrimLeft(s) ==
    IF s # <<>> /\ Head(s) \in WhiteSpace THEN TrimLeft(Tail(s)) ELSE s

RECURSIVE DigitPrefix(_)
DigitPrefix(s) ==
    IF s # <<>> /\ IsDigit(Head(s)) THEN <<Head(s)>> \o DigitPrefix(Tail(s))
    ELSE <<>>

RECURSIVE DigitsToNat(_, _)
DigitsToNat(s, acc) ==
    IF s = <<>> THEN acc ELSE DigitsToNat(Tail(s), 10 * acc + DigitValue(Head(s)))

NaN == [isNaN |-> TRUE, value |-> 0]

\* parseInt(s, 10): leading white space, an optional sign, then the longest
\* prefix of decimal digits; NaN when there is no digit
ParseInt(s) ==
    LET t == TrimLeft(s)
        neg == t # <<>> /\ Head(t) = "-"
        u == IF t # <<>> /\ Head(t) \in {"-", "+"} THEN Tail(t) ELSE t
        z == DigitPrefix(u)
    IN IF z = <<>> THEN NaN
       ELSE [isNaN |-> FALSE,
             value |-> IF neg THEN -DigitsToNat(z, 0) ELSE DigitsToNat(z, 0)]

\* Math.round(n / d) for n >= 0, d > 0: halves round up.  For the products
\* this program forms (goal * 0.95, * 0.85, * 1.10, * 0.18 and
\* 745 / goal * 100, goals up to 20000) the IEEE-754 double result was
\* compared with this exact value and agrees everywhere.
MathRound(n, d) == (2 * n + d) \div (2 * d)

\* the values an <input type="range" min max step> can deliver
RangeValues(min, max, step) == {min + step * k : k \in 0..((max - min) \div step)}

\* the positions of such a slider that the model offers as user input
RangeInputs(min, max, step) ==
    {min + step * ((SampleStride * i) % (((max - min) \div step) + 1)) :
        i \in 0..(MaxSliderInputs - 1)}

---------------------------------------------------------------------------
(* window.localStorage *)

GoalKey == "steady:weeklyGoal"

\* getItem: null (<<>>) for a missing key
GetItem(store, key) == IF key \in DOMAIN store THEN <<store[key]>> ELSE <<>>

SetItem(store, key, value) ==
    [k \in (DOMAIN store) \cup {key} |-> IF k = key THEN value ELSE store[k]]

EmptyStorage == [k \in {} |-> <<>>]

\* what a browser may hold under the key before the app first runs
InitialSaved ==
    { <<>>,
      <<"a", "b", "c">>,
      <<"0">>,
      <<"-", "5">>,
      <<"1", "2", "p", "x">>,
      <<" ", "4", "2">>,
      <<"7", "5", "0">>,
      <<"1", "5", "0", "0">> }

InitialStorages ==
    {EmptyStorage} \cup {SetItem(EmptyStorage, GoalKey, s) : s \in InitialSaved}

\* App: the weeklyGoal initializer (window is defined in a browser)
InitialWeeklyGoal(store) ==
    LET saved == GetItem(store, GoalKey)
        parsed == IF saved # <<>> /\ saved[1] # <<>> THEN ParseInt(saved[1]) ELSE NaN
    IN IF ~parsed.isNaN /\ parsed.value > 0 THEN parsed.value ELSE 1000

---------------------------------------------------------------------------
(* frontend2: what the screens compute and show *)

AppScreen == {"login", "onboarding", "dashboard", "forecast", "insights",
              "trends", "profile"}

\* BottomNav: navItems ids
NavItems == <<"dashboard", "forecast", "insights", "trends", "profile">>

MainScreens == {NavItems[i] : i \in DOMAIN NavItems}

\* ForecastDetailScreen: module-level chart data
mockData ==
    << [week |-> "Aug 19", earnings |-> 820, lower |-> 760, upper |-> 880, forecast |-> FALSE],
       [week |-> "Aug 26", earnings |-> 890, lower |-> 830, upper |-> 950, forecast |-> FALSE],
       [week |-> "Sep 2",  earnings |-> 740, lower |-> 680, upper |-> 800, forecast |-> FALSE],
       [week |-> "Sep 9",  earnings |-> 910, lower |-> 850, upper |-> 970, forecast |-> FALSE],
       [week |-> "Sep 16", earnings |-> 865, lower |-> 805, upper |-> 925, forecast |-> FALSE],
       [week |-> "Sep 23", earnings |-> 920, lower |-> 860, upper |-> 980, forecast |-> FALSE],
       [week |-> "Sep 30", earnings |-> 795, lower |-> 735, upper |-> 855, forecast |-> FALSE],
       [week |-> "Oct 7",  earnings |-> 880, lower |-> 820, upper |-> 940, forecast |-> FALSE],
       [week |-> "Oct 14", earnings |-> 935, lower |-> 875, upper |-> 995, forecast |-> FALSE],
       [week |-> "Oct 21", earnings |-> 870, lower |-> 810, upper |-> 930, forecast |-> FALSE],
       [week |-> "Oct 28", earnings |-> 905, lower |-> 845, upper |-> 965, forecast |-> FALSE],
       [week |-> "Nov 4",  earnings |-> 890, lower |-> 830, upper |-> 950, forecast |-> FALSE],
       [week |-> "Nov 11", earnings |-> 910, lower |-> 845, upper |-> 975, forecast |-> TRUE] >>

\* ForecastDetailScreen: const baseForecast = Math.round(weeklyGoal * 0.95)
BaseForecast(goal) == MathRound(goal * 95, 100)

\* mutant: the upper factor pasted into the lower bound
LowerBoundPasted(goal) == MathRound(goal * 110, 100)

\* ForecastDetailScreen: const lowerBound = Math.round(weeklyGoal * 0.85)
LowerBound(goal) == MathRound(goal * 85, 100)

\* ForecastDetailScreen: const upperBound = Math.round(weeklyGoal * 1.10)
UpperBound(goal) == MathRound(goal * 110, 100)

\* ForecastDetailScreen: filters
Filters == <<"Weekday", "Zone", "Shift Type">>

\* mutant: an active filter chip lowers the forecast
ForecastDetailScreenFiltered(goal, activeFilter) ==
    [ baseForecast |-> IF activeFilter = <<>> THEN BaseForecast(goal)
                       ELSE MathRound(goal * 90, 100),
      plusMinus    |-> UpperBound(goal) - BaseForecast(goal),
      lowerBound   |-> LowerBound(goal),
      upperBound   |-> UpperBound(goal),
      chart        |-> mockData,
      average12    |-> 872,
      volatilityPct |-> 9,
      bestWeek     |-> 935,
      trendPct     |-> 4,
      activeChips  |-> {Filters[i] : i \in {j \in DOMAIN Filters : activeFilter = <<Filters[j]>>}} ]

\* ForecastDetailScreen: the numbers and chips it renders from its prop and state
ForecastDetailScreen(goal, activeFilter) ==
    [ baseForecast |-> BaseForecast(goal),
      plusMinus    |-> UpperBound(goal) - BaseForecast(goal),
      lowerBound   |-> LowerBound(goal),
      upperBound   |-> UpperBound(goal),
      chart        |-> mockData,
      average12    |-> 872,
      volatilityPct |-> 9,
      bestWeek     |-> 935,
      trendPct     |-> 4,
      activeChips  |-> {Filters[i] : i \in {j \in DOMAIN Filters : activeFilter = <<Filters[j]>>}} ]

\* mutant: the amount left to earn is subtracted the wrong way round
DashboardScreenFlipped(goal) ==
    LET forecastAmount == 910
        forecastVariance == 65
        currentProgress == 745
        steadinessScore == 78
    IN [ forecastAmount   |-> forecastAmount,
         forecastVariance |-> forecastVariance,
         steadinessScore  |-> steadinessScore,
         volatilityPct    |-> 9,
         goalPercent      |-> MathRound(currentProgress * 100, goal),
         currentProgress  |-> currentProgress,
         weeklyGoal       |-> goal,
         remaining        |-> currentProgress - goal ]

\* frontend2 DashboardScreen: the numbers it renders
DashboardScreen(goal) ==
    LET forecastAmount == 910
        forecastVariance == 65
        currentProgress == 745
        steadinessScore == 78
    IN [ forecastAmount   |-> forecastAmount,
         forecastVariance |-> forecastVariance,
         steadinessScore  |-> steadinessScore,
         volatilityPct    |-> 9,
         goalPercent      |-> MathRound(currentProgress * 100, goal),
         currentProgress  |-> currentProgress,
         weeklyGoal       |-> goal,
         remaining        |-> goal - currentProgress ]

\* frontend2 DashboardScreen: the progress bar's width in percent,
\* Math.min((currentProgress / weeklyGoal) * 100, 100), as the exact fraction
\* <<numerator, denominator>>
GoalBarWidth(goal) ==
    LET currentProgress == DashboardScreen(goal).currentProgress
    IN IF currentProgress * 100 <= 100 * goal
       THEN <<currentProgress * 100, goal>>
       ELSE <<100, 1>>

\* frontend2 InsightsScreen: the one number it derives from its prop
InsightsScreen(goal) ==
    [ extraFromPeak    |-> MathRound(goal * 18, 100),
      peakPct          |-> 18,
      weekendPct       |-> 24,
      consistencyScore |-> 78 ]

\* frontend2 TrendsScreen: the figure of its Weather Impact card
TrendsScreen == [weatherCorrelationPct |-> 12]

\* frontend2 ProfileScreen: the goal under the slider and the profile card
ProfileScreen(tempGoal) == [tempGoal |-> tempGoal, totalTrips |-> 1247]

\* frontend2 App: the children its JSX renders, in order, with their props
AppChildren(screen, goal) ==
    (IF screen = "login" THEN <<[component |-> "LoginScreen"]>> ELSE <<>>)
    \o (IF screen = "onboarding" THEN <<[component |-> "OnboardingScreen"]>> ELSE <<>>)
    \o (IF screen = "dashboard"
        THEN <<[component |-> "DashboardScreen", weeklyGoal |-> goal]>> ELSE <<>>)
    \o (IF screen = "forecast"
        THEN <<[component |-> "ForecastDetailScreen", weeklyGoal |-> goal]>> ELSE <<>>)
    \o (IF screen = "insights"
        THEN <<[component |-> "InsightsScreen", weeklyGoal |-> goal]>> ELSE <<>>)
    \o (IF screen = "trends"
        THEN <<[component |-> "TrendsScreen", weeklyGoal |-> goal]>> ELSE <<>>)
    \o (IF screen = "profile"
        THEN <<[component |-> "ProfileScreen", weeklyGoal |-> goal]>> ELSE <<>>)
    \o (IF screen # "login" /\ screen # "onboarding"
        THEN <<[component |-> "BottomNav", activeScreen |-> screen]>> ELSE <<>>)

---------------------------------------------------------------------------
(* frontend2: component state at mount *)

OnboardingInit ==
    [ mounted |-> TRUE, step |-> 1, weeklyGoal |-> 1000, averageHours |-> "20-30",
      preferredZones |-> <<>>, workDays |-> <<>> ]

ProfileInit(goal) ==
    [ mounted |-> TRUE, tempGoal |-> goal,
      notifications |-> [insights |-> TRUE, goals |-> TRUE, weekly |-> FALSE] ]

ForecastDetailInit == [mounted |-> TRUE, activeFilter |-> <<>>]

TrendsInit ==
    [ mounted |-> TRUE,
      layers |-> [earnings |-> TRUE, rainfall |-> TRUE, events |-> TRUE, demand |-> TRUE] ]

\* OnboardingScreen: the hour options, zones and days offered
HourOptions == {"10-20", "20-30", "30-40", "40+"}
zones == <<"Downtown", "Airport", "Suburbs", "University District">>
days == <<"Mon", "Tue", "Wed", "Thu", "Fri", "Sat", "Sun">>

\* the range inputs of OnboardingScreen and ProfileScreen: min 400 max 2000 step 50
GoalSliderValues == RangeValues(400, 2000, 50)
GoalSliderInputs == RangeInputs(400, 2000, 50)

\* prev.includes(x) ? prev.filter(y => y !== x) : [...prev, x]
Toggle(prev, x) ==
    IF \E i \in DOMAIN prev : prev[i] = x
    THEN SelectSeq(prev, LAMBDA y : y # x)
    ELSE Append(prev, x)

\* React: setCurrentScreen(screen) unmounts the screen shown and mounts the new
\* one with fresh local state; setting the same value changes nothing
ShowScreen(screen) ==
    /\ currentScreen' = screen
    /\ IF screen = currentScreen
       THEN UNCHANGED <<onboarding, profile, forecastDetail, trends>>
       ELSE /\ onboarding' = IF screen = "onboarding" THEN OnboardingInit ELSE Unmounted
            /\ profile' = IF screen = "profile" THEN ProfileInit(weeklyGoal') ELSE Unmounted
            /\ forecastDetail' = IF screen = "forecast" THEN ForecastDetailInit ELSE Unmounted
            /\ trends' = IF screen = "trends" THEN TrendsInit ELSE Unmounted

\* mutant: the goal is kept in React state only, never written to storage
PersistWeeklyGoalNoWrite(newGoal) ==
    /\ weeklyGoal' = newGoal
    /\ localStorage' = localStorage

\* mutant: the goal is written to storage but React state is not updated
PersistWeeklyGoalNoSet(newGoal) ==
    /\ weeklyGoal' = weeklyGoal
    /\ localStorage' = SetItem(localStorage, GoalKey, ToString(newGoal))

\* App.persistWeeklyGoal
PersistWeeklyGoal(newGoal) ==
    /\ weeklyGoal' = newGoal
    /\ localStorage' = SetItem(localStorage, GoalKey, ToString(newGoal))

---------------------------------------------------------------------------
(* frontend2: the handlers *)

\* mutant: login goes straight to the Dashboard
HandleLoginSkipsOnboarding ==
    /\ currentScreen = "login"
    /\ ShowScreen("dashboard")
    /\ UNCHANGED <<weeklyGoal, userData, localStorage, fvars>>

\* LoginScreen "Continue with Uber" -> App.handleLogin
HandleLogin ==
    /\ currentScreen = "login"
    /\ ShowScreen("onboarding")
    /\ UNCHANGED <<weeklyGoal, userData, localStorage, fvars>>

\* OnboardingScreen step 1: the goal slider
OnboardingSetWeeklyGoal(v) ==
    /\ onboarding.mounted /\ onboarding.step = 1
    /\ v # onboarding.weeklyGoal
    /\ onboarding' = [onboarding EXCEPT !.weeklyGoal = v]
    /\ UNCHANGED <<currentScreen, weeklyGoal, userData, localStorage, profile,
                   forecastDetail, trends, fvars>>

\* OnboardingScreen: Continue / Back buttons (setStep)
OnboardingSetStep(from, to) ==
    /\ onboarding.mounted /\ onboarding.step = from
    /\ onboarding' = [onboarding EXCEPT !.step = to]
    /\ UNCHANGED <<currentScreen, weeklyGoal, userData, localStorage, profile,
                   forecastDetail, trends, fvars>>

\* OnboardingScreen step 2: setAverageHours
OnboardingSetAverageHours(hours) ==
    /\ onboarding.mounted /\ onboarding.step = 2
    /\ hours # onboarding.averageHours
    /\ onboarding' = [onboarding EXCEPT !.averageHours = hours]
    /\ UNCHANGED <<currentScreen, weeklyGoal, userData, localStorage, profile,
                   forecastDetail, trends, fvars>>

\* OnboardingScreen step 2: toggleDay
OnboardingToggleDay(day) ==
    /\ onboarding.mounted /\ onboarding.step = 2
    /\ onboarding' = [onboarding EXCEPT !.workDays = Toggle(@, day)]
    /\ UNCHANGED <<currentScreen, weeklyGoal, userData, localStorage, profile,
                   forecastDetail, trends, fvars>>

\* OnboardingScreen step 3: toggleZone
OnboardingToggleZone(zone) ==
    /\ onboarding.mounted /\ onboarding.step = 3
    /\ onboarding' = [onboarding EXCEPT !.preferredZones = Toggle(@, zone)]
    /\ UNCHANGED <<currentScreen, weeklyGoal, userData, localStorage, profile,
                   forecastDetail, trends, fvars>>

\* mutant: onboarding completion keeps the goal App already holds
HandleOnboardingCompleteKeepsGoal ==
    /\ onboarding.mounted /\ onboarding.step = 3
    /\ LET data == [ weeklyGoal |-> onboarding.weeklyGoal,
                     averageHours |-> onboarding.averageHours,
                     preferredZones |-> onboarding.preferredZones,
                     workDays |-> onboarding.workDays ]
       IN /\ userData' = <<data>>
          /\ UNCHANGED <<weeklyGoal, localStorage>>
          /\ ShowScreen("dashboard")
    /\ UNCHANGED fvars

\* OnboardingScreen "Get Started" -> handleComplete -> App.handleOnboardingComplete
HandleOnboardingComplete ==
    /\ onboarding.mounted /\ onboarding.step = 3
    /\ LET data == [ weeklyGoal |-> onboarding.weeklyGoal,
                     averageHours |-> onboarding.averageHours,
                     preferredZones |-> onboarding.preferredZones,
                     workDays |-> onboarding.workDays ]
       IN /\ userData' = <<data>>
          /\ PersistWeeklyGoal(data.weeklyGoal)
          /\ ShowScreen("dashboard")
    /\ UNCHANGED fvars

\* BottomNav navItems: the label of the item with this id
NavLabel(id) ==
    CASE id = "dashboard" -> "Home"
      [] id = "forecast"  -> "Forecast"
      [] id = "insights"  -> "Insights"
      [] id = "trends"    -> "Trends"
      [] id = "profile"   -> "Profile"

\* mutant: the button passes item.label, which the cast lets through
HandleNavigateLabel(screen) ==
    /\ currentScreen # "login" /\ currentScreen # "onboarding"
    /\ UNCHANGED <<weeklyGoal, userData, localStorage, fvars>>
    /\ ShowScreen(NavLabel(screen))

\* BottomNav button -> App.handleNavigate(item.id)
HandleNavigate(screen) ==
    /\ currentScreen # "login" /\ currentScreen # "onboarding"
    /\ UNCHANGED <<weeklyGoal, userData, localStorage, fvars>>
    /\ ShowScreen(screen)

\* ProfileScreen: the goal slider (setTempGoal)
ProfileSetTempGoal(v) ==
    /\ profile.mounted
    /\ v # profile.tempGoal
    /\ profile' = [profile EXCEPT !.tempGoal = v]
    /\ UNCHANGED <<currentScreen, weeklyGoal, userData, localStorage, onboarding,
                   forecastDetail, trends, fvars>>

\* ProfileScreen "Save Changes" (rendered when tempGoal !== weeklyGoal)
\* -> handleSaveGoal -> App.handleUpdateGoal
HandleSaveGoal ==
    /\ profile.mounted
    /\ profile.tempGoal # weeklyGoal
    /\ PersistWeeklyGoal(profile.tempGoal)
    /\ UNCHANGED <<currentScreen, userData, onboarding, profile, forecastDetail,
                   trends, fvars>>

\* ProfileScreen: a notification toggle
ProfileToggleNotification(which) ==
    /\ profile.mounted
    /\ profile' = [profile EXCEPT !.notifications[which] = ~@]
    /\ UNCHANGED <<currentScreen, weeklyGoal, userData, localStorage, onboarding,
                   forecastDetail, trends, fvars>>

\* mutant: Sign Out is wired to take the user back to the login screen
ProfileSignOutToLogin ==
    /\ profile.mounted
    /\ ShowScreen("login")
    /\ UNCHANGED <<weeklyGoal, userData, localStorage, fvars>>

\* ProfileScreen "Sign Out": a button with no onClick, pressing it does nothing
ProfileSignOut ==
    /\ profile.mounted
    /\ UNCHANGED vars

\* ForecastDetailScreen: a filter chip
SetActiveFilter(filter) ==
    /\ forecastDetail.mounted
    /\ forecastDetail' = [forecastDetail EXCEPT
                            !.activeFilter = IF @ = <<filter>> THEN <<>> ELSE <<filter>>]
    /\ UNCHANGED <<currentScreen, weeklyGoal, userData, localStorage, onboarding,
                   profile, trends, fvars>>

\* TrendsScreen: toggleLayer
ToggleLayer(layer) ==
    /\ trends.mounted
    /\ trends' = [trends EXCEPT !.layers[layer] = ~@]
    /\ UNCHANGED <<currentScreen, weeklyGoal, userData, localStorage, onboarding,
                   profile, forecastDetail, fvars>>

\* the page is loaded again: App is constructed anew over the same localStorage
Reload ==
    /\ currentScreen' = "login"
    /\ weeklyGoal' = InitialWeeklyGoal(localStorage)
    /\ userData' = <<>>
    /\ onboarding' = Unmounted
    /\ profile' = Unmounted
    /\ forecastDetail' = Unmounted
    /\ trends' = Unmounted
    /\ UNCHANGED <<localStorage, fvars>>

---------------------------------------------------------------------------
(* frontend (the prototype): screens and handlers *)

\* Navigation: navItems ids
FNavItems == <<"dashboard", "forecast", "insights", "trends", "profile">>

\* mutant: the switch has no silent default
RenderScreenNoDefault(screen) ==
    CASE screen = "dashboard" -> "DashboardScreen"
      [] screen = "forecast"  -> "ForecastScreen"
      [] screen = "insights"  -> "InsightsScreen"
      [] screen = "trends"    -> "TrendsScreen"
      [] screen = "profile"   -> "ProfileScreen"
      [] OTHER                -> "NotFound"

\* App.renderScreen: the switch over currentScreen
RenderScreen(screen) ==
    CASE screen = "dashboard" -> "DashboardScreen"
      [] screen = "forecast"  -> "ForecastScreen"
      [] screen = "insights"  -> "InsightsScreen"
      [] screen = "trends"    -> "TrendsScreen"
      [] screen = "profile"   -> "ProfileScreen"
      [] OTHER                -> "DashboardScreen"

\* frontend App: what it returns
App(loggedIn, screen) ==
    IF ~loggedIn THEN <<"LoginScreen">>
    ELSE <<RenderScreen(screen), "Navigation">>

\* mutant: the last week carries the value of the week after it in weeklyData
trendsDataShifted ==
    << [week |-> "Aug 14", earnings |-> 840, rainfall |-> 2,  googleTrends |-> 65, events |-> 0],
       [week |-> "Aug 21", earnings |-> 780, rainfall |-> 0,  googleTrends |-> 58, events |-> 0],
       [week |-> "Aug 28", earnings |-> 920, rainfall |-> 25, googleTrends |-> 72, events |-> 0],
       [week |-> "Sep 4",  earnings |-> 810, rainfall |-> 5,  googleTrends |-> 61, events |-> 0],
       [week |-> "Sep 11", earnings |-> 950, rainfall |-> 30, googleTrends |-> 78, events |-> 0],
       [week |-> "Sep 18", earnings |-> 770, rainfall |-> 0,  googleTrends |-> 55, events |-> 0],
       [week |-> "Sep 25", earnings |-> 890, rainfall |-> 12, googleTrends |-> 68, events |-> 0],
       [week |-> "Oct 2",  earnings |-> 940, rainfall |-> 8,  googleTrends |-> 82, events |-> 1],
       [week |-> "Oct 9",  earnings |-> 820, rainfall |-> 3,  googleTrends |-> 63, events |-> 0],
       [week |-> "Oct 16", earnings |-> 860, rainfall |-> 0,  googleTrends |-> 59, events |-> 0],
       [week |-> "Oct 23", earnings |-> 880, rainfall |-> 15, googleTrends |-> 71, events |-> 0],
       [week |-> "Oct 30", earnings |-> 890, rainfall |-> 18, googleTrends |-> 75, events |-> 0] >>

\* frontend TrendsScreen: trendsData
trendsData ==
    << [week |-> "Aug 14", earnings |-> 840, rainfall |-> 2,  googleTrends |-> 65, events |-> 0],
       [week |-> "Aug 21", earnings |-> 780, rainfall |-> 0,  googleTrends |-> 58, events |-> 0],
       [week |-> "Aug 28", earnings |-> 920, rainfall |-> 25, googleTrends |-> 72, events |-> 0],
       [week |-> "Sep 4",  earnings |-> 810, rainfall |-> 5,  googleTrends |-> 61, events |-> 0],
       [week |-> "Sep 11", earnings |-> 950, rainfall |-> 30, googleTrends |-> 78, events |-> 0],
       [week |-> "Sep 18", earnings |-> 770, rainfall |-> 0,  googleTrends |-> 55, events |-> 0],
       [week |-> "Sep 25", earnings |-> 890, rainfall |-> 12, googleTrends |-> 68, events |-> 0],
       [week |-> "Oct 2",  earnings |-> 940, rainfall |-> 8,  googleTrends |-> 82, events |-> 1],
       [week |-> "Oct 9",  earnings |-> 820, rainfall |-> 3,  googleTrends |-> 63, events |-> 0],
       [week |-> "Oct 16", earnings |-> 860, rainfall |-> 0,  googleTrends |-> 59, events |-> 0],
       [week |-> "Oct 23", earnings |-> 880, rainfall |-> 15, googleTrends |-> 71, events |-> 0],
       [week |-> "Oct 30", earnings |-> 930, rainfall |-> 18, googleTrends |-> 75, events |-> 0] >>

\* frontend ForecastScreen: the Income Stability card
ForecastScreen == [volatilityPct |-> 9, average12 |-> 865]

\* frontend DashboardScreen: forecasts (the Smart Insights feed)
forecasts ==
    << [ icon |-> "Cloud", strength |-> "Strong",
         title |-> "Rainy weekends boosted your income by 14%",
         subtitle |-> "Consider adding short shifts when storms hit Sydney." ],
       [ icon |-> "Clock", strength |-> "Strong",
         title |-> "Earnings are highest between 5 PM - 8 PM",
         subtitle |-> "Staying active during this window improves stability." ],
       [ icon |-> "BarChart3", strength |-> "Moderate",
         title |-> "Your weekly hours are balanced",
         subtitle |-> "Maintaining around 25-28 hours gives steadier pay." ] >>

\* frontend InsightsScreen: the three insight lists
timingInsights ==
    << [ icon |-> "Clock", strength |-> "Strong",
         title |-> "You earn most between 6-9 PM on Fridays",
         subtitle |-> "Friday evening rush delivers 23% higher rates than weekday averages." ],
       [ icon |-> "Clock", strength |-> "Moderate",
         title |-> "Morning shifts (7-10 AM) show steady demand",
         subtitle |-> "Consistent $28-32/hour during weekday breakfast hours." ] >>

externalInsights ==
    << [ icon |-> "Cloud", strength |-> "Strong",
         title |-> "Rain increases your earnings by 18% on average",
         subtitle |-> "Particularly effective during weekends and evening hours." ],
       [ icon |-> "Calendar", strength |-> "Moderate",
         title |-> "Public holidays boost demand by ~10%",
         subtitle |-> "Especially effective near CBD and Inner West areas." ],
       [ icon |-> "MapPin", strength |-> "Strong",
         title |-> "Surry Hills and Newtown are your best areas",
         subtitle |-> "Higher tips and shorter wait times between rides." ] >>

behavioralInsights ==
    << [ icon |-> "BarChart3", strength |-> "Strong",
         title |-> "Driving four days a week produces steadiest results",
         subtitle |-> "Better work-life balance with only 8% earnings variance." ],
       [ icon |-> "Users", strength |-> "Moderate",
         title |-> "You perform 15% better during Uber Eats dinner rush",
         subtitle |-> "Consider focusing more on food delivery 6-9 PM." ] >>

\* the insight cards on screen: DashboardScreen maps forecasts, InsightsScreen
\* renders one InsightCard per list; every element is rendered, unfiltered
InsightCards(loggedIn, screen) ==
    IF ~loggedIn THEN <<>>
    ELSE CASE RenderScreen(screen) = "DashboardScreen" -> forecasts
           [] RenderScreen(screen) = "InsightsScreen" ->
                timingInsights \o externalInsights \o behavioralInsights
           [] OTHER -> <<>>

\* JavaScript property read: obj[key], undefined (here <<>>) when absent
Prop(obj, key) == IF key \in DOMAIN obj THEN <<obj[key]>> ELSE <<>>

FProfileInit ==
    [ mounted |-> TRUE, weeklyGoal |-> <<900>>,
      notifications |-> [weeklyRecap |-> TRUE, goalReminders |-> TRUE, insights |-> FALSE] ]

\* frontend ProfileScreen: Slider min 500 max 1500 step 50
FGoalSliderValues == RangeValues(500, 1500, 50)

\* React: ProfileScreen keeps its local state while it stays rendered
FShow(loggedIn, screen) ==
    /\ isLoggedIn' = loggedIn
    /\ fCurrentScreen' = screen
    /\ fProfile' = IF loggedIn /\ RenderScreen(screen) = "ProfileScreen"
                   THEN (IF fProfile.mounted THEN fProfile ELSE FProfileInit)
                   ELSE Unmounted

\* LoginScreen button -> App.handleLogin
FHandleLogin ==
    /\ ~isLoggedIn
    /\ FShow(TRUE, fCurrentScreen)
    /\ UNCHANGED f2vars

\* mutant: logout leaves currentScreen where it was
FHandleLogoutKeepsScreen ==
    /\ fProfile.mounted
    /\ FShow(FALSE, fCurrentScreen)
    /\ UNCHANGED f2vars

\* ProfileScreen "Sign out" -> App.handleLogout
FHandleLogout ==
    /\ fProfile.mounted
    /\ FShow(FALSE, "dashboard")
    /\ UNCHANGED f2vars

\* Navigation button -> App.handleScreenChange(item.id)
HandleScreenChange(screen) ==
    /\ isLoggedIn
    /\ FShow(isLoggedIn, screen)
    /\ UNCHANGED f2vars

\* the back arrow of Forecast, Insights, Trends, Profile -> App.handleBackToDashboard
HandleBackToDashboard ==
    /\ isLoggedIn
    /\ RenderScreen(fCurrentScreen) # "DashboardScreen"
    /\ FShow(isLoggedIn, "dashboard")
    /\ UNCHANGED f2vars

\* frontend ProfileScreen: Slider onValueChange={setWeeklyGoal}
FProfileSetWeeklyGoal(v) ==
    /\ fProfile.mounted
    /\ <<v>> # fProfile.weeklyGoal
    /\ fProfile' = [fProfile EXCEPT !.weeklyGoal = <<v>>]
    /\ UNCHANGED <<fCurrentScreen, isLoggedIn, f2vars>>

\* frontend ProfileScreen: Switch onCheckedChange
FProfileSetNotification(which, checked) ==
    /\ fProfile.mounted
    /\ checked = ~fProfile.notifications[which]
    /\ fProfile' = [fProfile EXCEPT !.notifications[which] = checked]
    /\ UNCHANGED <<fCurrentScreen, isLoggedIn, f2vars>>

---------------------------------------------------------------------------
(* The specifications *)

\* frontend2 opened in a browser whose localStorage holds anything; the
\* prototype freshly constructed
Init ==
    /\ localStorage \in InitialStorages
    /\ currentScreen = "login"
    /\ weeklyGoal = InitialWeeklyGoal(localStorage)
    /\ userData = <<>>
    /\ onboarding = Unmounted
    /\ profile = Unmounted
    /\ forecastDetail = Unmounted
    /\ trends = Unmounted
    /\ fCurrentScreen = "dashboard"
    /\ isLoggedIn = FALSE
    /\ fProfile = Unmounted

\* frontend2
Next ==
    \/ HandleLogin
    \/ \E v \in GoalSliderInputs : OnboardingSetWeeklyGoal(v)
    \/ \E st \in {<<1, 2>>, <<2, 1>>, <<2, 3>>, <<3, 2>>} : OnboardingSetStep(st[1], st[2])
    \/ \E h \in HourOptions : OnboardingSetAverageHours(h)
    \/ \E i \in 1..MaxDays : OnboardingToggleDay(days[i])
    \/ \E i \in 1..MaxZones : OnboardingToggleZone(zones[i])
    \/ HandleOnboardingComplete
    \/ \E i \in DOMAIN NavItems : HandleNavigate(NavItems[i])
    \/ \E v \in GoalSliderInputs : ProfileSetTempGoal(v)
    \/ HandleSaveGoal
    \/ \E n \in {"insights", "goals", "weekly"} : ProfileToggleNotification(n)
    \/ ProfileSignOut
    \/ \E i \in DOMAIN Filters : SetActiveFilter(Filters[i])
    \/ \E l \in {"earnings", "rainfall", "events", "demand"} : ToggleLayer(l)
    \/ Reload

Spec == Init /\ [][Next]_vars

\* frontend (the prototype)
FNext ==
    \/ FHandleLogin
    \/ FHandleLogout
    \/ \E i \in DOMAIN FNavItems : HandleScreenChange(FNavItems[i])
    \/ HandleBackToDashboard
    \/ \E v \in FGoalSliderValues : FProfileSetWeeklyGoal(v)
    \/ \E n \in {"weeklyRecap", "goalReminders", "insights"}, c \in BOOLEAN :
           FProfileSetNotification(n, c)

\* the prototype alone: frontend2 stays as constructed over an empty storage
FInit ==
    /\ localStorage = EmptyStorage
    /\ currentScreen = "login"
    /\ weeklyGoal = InitialWeeklyGoal(localStorage)
    /\ userData = <<>>
    /\ onboarding = Unmounted
    /\ profile = Unmounted
    /\ forecastDetail = Unmounted
    /\ trends = Unmounted
    /\ fCurrentScreen = "dashboard"
    /\ isLoggedIn = FALSE
    /\ fProfile = Unmounted

FSpec == FInit /\ [][FNext]_vars

\* renderScreen as a function of any string: the prototype started from an
\* arbitrary value of currentScreen
ScreenStrings ==
    {"dashboard", "forecast", "insights", "trends", "profile",
     "login", "onboarding", "settings", "Dashboard", "", "home"}

RenderInit ==
    /\ localStorage = EmptyStorage
    /\ currentScreen = "login"
    /\ weeklyGoal = InitialWeeklyGoal(localStorage)
    /\ userData = <<>>
    /\ onboarding = Unmounted
    /\ profile = Unmounted
    /\ forecastDetail = Unmounted
    /\ trends = Unmounted
    /\ fCurrentScreen \in ScreenStrings
    /\ isLoggedIn \in BOOLEAN
    /\ fProfile = IF isLoggedIn /\ RenderScreen(fCurrentScreen) = "ProfileScreen"
                  THEN FProfileInit ELSE Unmounted

RenderSpec == RenderInit /\ [][FNext]_vars

---------------------------------------------------------------------------
(* Properties *)

\* the forecast numbers of a rendering, without the chips
ForecastNumbers(view) ==
    [ baseForecast |-> view.baseForecast, plusMinus |-> view.plusMinus,
      lowerBound |-> view.lowerBound, upperBound |-> view.upperBound ]

FilterStates == {<<>>} \cup {<<Filters[i]>> : i \in DOMAIN Filters}

BoundsOrdered(view) ==
    view.lowerBound <= view.baseForecast /\ view.baseForecast <= view.upperBound

\* every goal from 1 to MaxGoal: the slider values and whatever a stored
\* string may parse to
AllGoalsOrdered == \A g \in 1..MaxGoal : BoundsOrdered(ForecastDetailScreen(g, <<>>))

\* C1: for every weeklyGoal the app can hold, lowerBound <= baseForecast <=
\* upperBound on the forecast screen, and every row of mockData has
\* lower <= earnings <= upper.
C1_ForecastBoundsOrdered ==
    /\ AllGoalsOrdered
    /\ BoundsOrdered(ForecastDetailScreen(weeklyGoal, <<>>))
    /\ currentScreen = "forecast" =>
         LET view == ForecastDetailScreen(weeklyGoal, forecastDetail.activeFilter)
         IN /\ BoundsOrdered(view)
            /\ \A i \in DOMAIN view.chart :
                 /\ view.chart[i].lower <= view.chart[i].earnings
                 /\ view.chart[i].earnings <= view.chart[i].upper

\* the forecast screen is shown for a goal whose 0.95 and 0.85 multiples fall
\* on a half (750 -> 712.5, 637.5)
C1_Witness ==
    /\ currentScreen = "forecast"
    /\ weeklyGoal = 750
    /\ ForecastDetailScreen(weeklyGoal, forecastDetail.activeFilter).lowerBound = 638
    /\ ForecastDetailScreen(weeklyGoal, forecastDetail.activeFilter).baseForecast = 713
    /\ ForecastDetailScreen(weeklyGoal, forecastDetail.activeFilter).upperBound = 825

\* C3: nothing but the weekly goal under 'steady:weeklyGoal' is ever written
\* to storage; whenever the goal changes the stored string is
\* String(weeklyGoal) afterwards, and once they agree they agree in every
\* later state.
StoredGoal == GetItem(localStorage, GoalKey)

C3_SingleKeyInSync ==
    /\ [](DOMAIN localStorage \subseteq {GoalKey})
    /\ [](userData # <<>> => StoredGoal = <<ToString(weeklyGoal)>>)
    /\ [][ /\ (weeklyGoal' # weeklyGoal \/ localStorage' # localStorage)
              => StoredGoal' = <<ToString(weeklyGoal')>>
           /\ StoredGoal = <<ToString(weeklyGoal)>>
              => StoredGoal' = <<ToString(weeklyGoal')>> ]_vars

\* a goal saved on the Profile screen (it differs from the onboarding answer)
\* over a storage that first held something else
C3_Witness ==
    /\ userData # <<>>
    /\ userData[1].weeklyGoal = 1000
    /\ weeklyGoal = 750
    /\ currentScreen = "profile"
    /\ localStorage[GoalKey] = <<"7", "5", "0">>

\* C4: for a logged-in user and every string value of currentScreen the
\* prototype renders exactly one of its five screens (plus Navigation), and
\* every value other than the five ids renders the Dashboard.
FScreenComponents ==
    {"DashboardScreen", "ForecastScreen", "InsightsScreen", "TrendsScreen", "ProfileScreen"}

C4_SwitchTotalWithDefault ==
    isLoggedIn =>
        LET out == App(isLoggedIn, fCurrentScreen)
        IN /\ Len(out) = 2
           /\ out[1] \in FScreenComponents
           /\ out[2] = "Navigation"
           /\ (fCurrentScreen \notin {FNavItems[i] : i \in DOMAIN FNavItems}
                 => out[1] = "DashboardScreen")

\* a logged-in user with a currentScreen the switch does not name
C4_Witness ==
    /\ isLoggedIn
    /\ fCurrentScreen = "settings"
    /\ App(isLoggedIn, fCurrentScreen) = <<"DashboardScreen", "Navigation">>

\* C5: the forecast numbers shown are a function of weeklyGoal alone: in
\* every state that shows the forecast screen, however it was reached, the
\* numbers rendered equal those rendered for the same goal under any filter
\* chip state.
C5_ForecastFunctionOfGoal ==
    currentScreen = "forecast" =>
        \A f \in FilterStates :
            ForecastNumbers(ForecastDetailScreen(weeklyGoal, forecastDetail.activeFilter))
              = ForecastNumbers(ForecastDetailScreen(weeklyGoal, f))

\* the forecast screen with a chip active, after a Profile save
C5_Witness ==
    /\ currentScreen = "forecast"
    /\ forecastDetail.activeFilter = <<"Zone">>
    /\ userData # <<>>
    /\ userData[1].weeklyGoal # weeklyGoal

\* C6: whenever the Dashboard is displayed, the goal it is given, shows and
\* measures progress against is App.weeklyGoal, which is the goal last
\* committed (by onboarding completion or Save Changes), the one
\* persistWeeklyGoal also left in storage.
C6_DashboardShowsCommittedGoal ==
    currentScreen = "dashboard" =>
        LET kids == AppChildren(currentScreen, weeklyGoal)
            committed == ParseInt(StoredGoal[1])
            view == DashboardScreen(kids[1].weeklyGoal)
        IN /\ kids[1].component = "DashboardScreen"
           /\ kids[1].weeklyGoal = weeklyGoal
           /\ ~committed.isNaN
           /\ view.weeklyGoal = committed.value
           /\ view.remaining = committed.value - view.currentProgress

\* the Dashboard after Save Changes replaced the onboarding goal
C6_Witness ==
    /\ currentScreen = "dashboard"
    /\ userData # <<>>
    /\ userData[1].weeklyGoal = 1000
    /\ weeklyGoal = 1100
    /\ DashboardScreen(weeklyGoal).remaining = 355

\* C9: the displayed '± X' (X = upperBound - baseForecast) equals
\* baseForecast - lowerBound, so 'baseForecast ± X' and the likely range
\* describe the same interval.
C9_SymmetricHalfWidth ==
    currentScreen = "forecast" =>
        LET view == ForecastDetailScreen(weeklyGoal, forecastDetail.activeFilter)
        IN /\ view.plusMinus = view.baseForecast - view.lowerBound
           /\ view.baseForecast - view.plusMinus = view.lowerBound
           /\ view.baseForecast + view.plusMinus = view.upperBound

---------------------------------------------------------------------------
(* Statistics of an earnings window, in exact integer arithmetic *)

Earnings(data) == [i \in DOMAIN data |-> data[i].earnings]

RECURSIVE SumSeq(_)
SumSeq(xs) == IF xs = <<>> THEN 0 ELSE Head(xs) + SumSeq(Tail(xs))

RECURSIVE SumSquares(_)
SumSquares(xs) == IF xs = <<>> THEN 0 ELSE Head(xs) * Head(xs) + SumSquares(Tail(xs))

RECURSIVE GCD(_, _)
GCD(a, b) == IF b = 0 THEN a ELSE GCD(b, a % b)

RECURSIVE GCDSeq(_)
GCDSeq(xs) == IF xs = <<>> THEN 0 ELSE GCD(Head(xs), GCDSeq(Tail(xs)))

\* floor(num * 10^k / den), one decimal digit at a time
RECURSIVE LongDiv(_, _, _)
LongDiv(num, den, k) ==
    IF k = 0 THEN num \div den
    ELSE (num \div den) * (10 ^ k) + LongDiv((num % den) * 10, den, k - 1)

\* floor(sqrt(v))
ISqrt(v) == CHOOSE r \in 0..v : r * r <= v /\ v < (r + 1) * (r + 1)

\* the mean, rounded to one decimal, times 10
MeanTenths(xs) == MathRound(10 * SumSeq(xs), Len(xs))

\* floor(10^6 * CV^2), CV = sample standard deviation / mean, for a window of
\* n >= 2 values with mean > 0.  CV does not change when every value is
\* divided by a common divisor, which keeps the sums small.
CVSquaredPPM(xs) ==
    LET d == GCDSeq(xs)
        ys == [i \in DOMAIN xs |-> xs[i] \div d]
        n == Len(ys)
        sum == SumSeq(ys)
        num == n * (n * SumSquares(ys) - sum * sum)
        den == (n - 1) * sum * sum
    IN LongDiv(num, den, 6)

\* floor(1000 * CV)
CVPerMille(xs) == ISqrt(CVSquaredPPM(xs))

TrailingWindow(xs, n) == SubSeq(xs, Len(xs) - n + 1, Len(xs))

\* frontend2: the weeks of mockData that are history, not forecast
History == Earnings(SelectSeq(mockData, LAMBDA row : ~row.forecast))

\* the windows a driver's steadiness and forecast could be computed over
Windows == {TrailingWindow(History, n) : n \in 2..Len(History)}

\* what the code shows for a driver whose window is w: neither screen reads
\* any earnings, so w does not enter
SteadinessScoreFor(w, goal) == DashboardScreen(goal).steadinessScore

IntervalWidthFor(w, goal) ==
    ForecastDetailScreen(goal, <<>>).upperBound - ForecastDetailScreen(goal, <<>>).lowerBound

---------------------------------------------------------------------------
(* Properties, continued *)

\* the numbers a main screen shows for a goal (on the Profile screen: the
\* goal under its slider)
ShownNumbers(screen, goal) ==
    LET view == CASE screen = "dashboard" -> DashboardScreen(goal)
                  [] screen = "forecast"  -> ForecastDetailScreen(goal, <<>>)
                  [] screen = "insights"  -> InsightsScreen(goal)
                  [] screen = "trends"    -> TrendsScreen
                  [] screen = "profile"   -> ProfileScreen(goal)
    IN [f \in (DOMAIN view) \ {"chart", "activeChips"} |-> view[f]]

GoalIndependent(screen, f) ==
    \A g1, g2 \in GoalSliderValues : ShownNumbers(screen, g1)[f] = ShownNumbers(screen, g2)[f]

\* round(c * goal) for one constant c = p / 100, 0 <= c <= 2
ScalarMultiple(screen, f) ==
    \E p \in 0..200 :
        \A g \in GoalSliderValues : ShownNumbers(screen, g)[f] = MathRound(g * p, 100)

\* the goal the screen shown works with
EnteredGoal == IF currentScreen = "profile" THEN profile.tempGoal ELSE weeklyGoal

LiteralOrMultiple ==
    UNION { { <<s, f>> : f \in { h \in DOMAIN ShownNumbers(s, 1000) :
                                   GoalIndependent(s, h) \/ ScalarMultiple(s, h) } } :
            s \in MainScreens }

C7_SteadinessDecreasingInCV ==
    currentScreen = "dashboard" =>
        /\ \A w \in Windows :
             0 <= SteadinessScoreFor(w, weeklyGoal) /\ SteadinessScoreFor(w, weeklyGoal) <= 100
        /\ \A w1, w2 \in Windows :
             CVSquaredPPM(w1) < CVSquaredPPM(w2)
               => SteadinessScoreFor(w1, weeklyGoal) > SteadinessScoreFor(w2, weeklyGoal)

\* C8: the interval width is non-decreasing in the window's CV, and a driver
\* whose earnings are steadier sees a narrower interval.
C8_WidthFollowsCV ==
    currentScreen = "forecast" =>
        \A w1, w2 \in Windows :
            /\ CVSquaredPPM(w1) <= CVSquaredPPM(w2)
                 => IntervalWidthFor(w1, weeklyGoal) <= IntervalWidthFor(w2, weeklyGoal)
            /\ CVSquaredPPM(w1) < CVSquaredPPM(w2)
                 => IntervalWidthFor(w1, weeklyGoal) < IntervalWidthFor(w2, weeklyGoal)

TrendsShown == isLoggedIn /\ RenderScreen(fCurrentScreen) = "TrendsScreen"

SpecScenario == <<840, 780, 920, 810, 950, 770, 890, 940, 820, 860, 880, 930>>

\* C10 as stated: the 12 weekly earnings of trendsData have mean 869.2 and
\* CV about 0.077.
C10_Mean8692 ==
    TrendsShown =>
        /\ Earnings(trendsData) = SpecScenario
        /\ MeanTenths(Earnings(trendsData)) = 8692
        /\ CVPerMille(Earnings(trendsData)) \in {76, 77}

\* C10 amended: the 12 weekly earnings of trendsData are the scenario's, their
\* mean is 865.8 (10390 / 12, the card's "$865") and their CV is about 0.072.
C10_Mean8658 ==
    TrendsShown =>
        /\ Earnings(trendsData) = SpecScenario
        /\ SumSeq(Earnings(trendsData)) = 10390
        /\ MeanTenths(Earnings(trendsData)) = 8658
        /\ SumSeq(Earnings(trendsData)) \div Len(trendsData) = ForecastScreen.average12
        /\ CVPerMille(Earnings(trendsData)) = 72

\* the prototype's Trends screen, which charts trendsData, is shown
C10_Witness ==
    /\ TrendsShown
    /\ fCurrentScreen = "trends"
    /\ Len(trendsData) = 12

---------------------------------------------------------------------------
(* Properties: insufficient history *)

\* a driver for whom only the latest week of the history exists
OnePeriod == TrailingWindow(History, 1)

---------------------------------------------------------------------------
(* Properties: insights *)

\* C14: every insight on screen, whatever its strength label, carries a
\* support count of at least 5 periods (minimum_support) and a relative
\* effect above the 5% noise floor; none is shown on its effect or label alone.
C14_InsightsGatedBySupport ==
    \A i \in DOMAIN InsightCards(isLoggedIn, fCurrentScreen) :
        LET insight == InsightCards(isLoggedIn, fCurrentScreen)[i]
            support == Prop(insight, "support_count")
            effect == Prop(insight, "effect_size_pct")
        IN /\ support # <<>> /\ support[1] >= 5
           /\ effect # <<>> /\ effect[1] > 5

---------------------------------------------------------------------------
(* Properties: navigation *)

Components(children) == {children[i].component : i \in DOMAIN children}

BottomNavShown == "BottomNav" \in Components(AppChildren(currentScreen, weeklyGoal))

MainScreenShown == currentScreen \in MainScreens

\* C16: BottomNav is rendered exactly when currentScreen is neither 'login'
\* nor 'onboarding'; a state showing BottomNav or a main screen is entered
\* only by completing onboarding (step 3 -> dashboard, userData set), and the
\* onboarding screen is entered only from login.
C16_NavOnlyAfterOnboarding ==
    /\ [](BottomNavShown <=> currentScreen \notin {"login", "onboarding"})
    /\ [](BottomNavShown \/ MainScreenShown => userData # <<>>)
    /\ [][ /\ (currentScreen' = "onboarding" /\ currentScreen # "onboarding")
                => currentScreen = "login"
           /\ ((BottomNavShown' \/ MainScreenShown') /\ ~(BottomNavShown \/ MainScreenShown))
                => /\ currentScreen = "onboarding" /\ onboarding.step = 3
                   /\ currentScreen' = "dashboard"
                   /\ userData' # <<>> ]_vars

\* a main screen other than the Dashboard, with the BottomNav, in a session
\* that went through onboarding
C16_Witness ==
    /\ currentScreen = "trends"
    /\ BottomNavShown
    /\ userData # <<>>
    /\ userData[1].workDays = <<"Mon">>

\* C17: in the prototype a logged-out App has currentScreen = 'dashboard' and
\* renders the LoginScreen alone, and the step that logs in shows the
\* Dashboard (with the Navigation).
C17_LoggedOutMeansDashboard ==
    /\ [](~isLoggedIn => /\ fCurrentScreen = "dashboard"
                          /\ App(isLoggedIn, fCurrentScreen) = <<"LoginScreen">>)
    /\ [][ (~isLoggedIn /\ isLoggedIn')
             => App(isLoggedIn', fCurrentScreen') = <<"DashboardScreen", "Navigation">> ]_vars

\* the login gate: logged out (at the start, and again after Sign out on the
\* Profile screen), nothing of the Profile screen left
C17_Witness ==
    /\ ~isLoggedIn
    /\ fCurrentScreen = "dashboard"
    /\ App(isLoggedIn, fCurrentScreen) = <<"LoginScreen">>
    /\ fProfile = Unmounted

\* the screens among the children App renders (everything but the BottomNav)
ScreensShown ==
    { i \in DOMAIN AppChildren(currentScreen, weeklyGoal) :
        AppChildren(currentScreen, weeklyGoal)[i].component # "BottomNav" }

\* C18: currentScreen is one of the seven AppScreen values, and exactly one of
\* the seven conditionally rendered screens is displayed.
C18_ExactlyOneScreen ==
    /\ currentScreen \in AppScreen
    /\ Cardinality(ScreensShown) = 1

\* the last nav item was pressed from another main screen: the Profile screen
\* alone is displayed above the BottomNav
C18_Witness ==
    /\ currentScreen = "profile"
    /\ Cardinality(ScreensShown) = 1
    /\ Components(AppChildren(currentScreen, weeklyGoal)) = {"ProfileScreen", "BottomNav"}
    /\ profile.mounted /\ ~onboarding.mounted

---------------------------------------------------------------------------
(* Properties: the weekly goal across sessions *)

\* the step that completes onboarding and first displays the Dashboard
FirstDashboard == currentScreen = "onboarding" /\ currentScreen' = "dashboard"

\* the session started over a storage holding a persisted goal: App loaded it
\* and storage still holds its string
LoadedPersistedGoal == StoredGoal = <<ToString(weeklyGoal)>>

\* C19: a goal g persisted under 'steady:weeklyGoal' and loaded at the
\* restart is the goal the Dashboard shows when it is first displayed,
\* provided the onboarding slider is where it started.
C19_SavedGoalSurvivesReload ==
    [][ (FirstDashboard /\ LoadedPersistedGoal
           /\ onboarding.weeklyGoal = OnboardingInit.weeklyGoal)
          => /\ DashboardScreen(weeklyGoal').weeklyGoal = weeklyGoal
             /\ StoredGoal' = StoredGoal ]_vars

\* C20: whenever a main screen is displayed, App.weeklyGoal is a multiple of
\* 50 in 400..2000, whatever localStorage held at the start.
C20_GoalOnSliderGrid ==
    MainScreenShown =>
        /\ 400 <= weeklyGoal /\ weeklyGoal <= 2000
        /\ weeklyGoal % 50 = 0
        /\ weeklyGoal \in GoalSliderValues

\* the Profile screen holding the slider's minimum as the saved goal, the
\* slider moved away from it
C20_Witness ==
    /\ currentScreen = "profile"
    /\ weeklyGoal = 400
    /\ profile.tempGoal # weeklyGoal
    /\ StoredGoal = <<ToString(400)>>

---------------------------------------------------------------------------
(* Properties: the Dashboard's cards *)

\* C21: the two views of the week Nov 11 - 17 agree: the Dashboard's
\* forecastAmount and forecastVariance equal the forecast screen's
\* baseForecast and upperBound - baseForecast for the goal App holds.
C21_TwoViewsAgree ==
    currentScreen \in {"dashboard", "forecast"} =>
        LET card == DashboardScreen(weeklyGoal)
            detail == ForecastDetailScreen(weeklyGoal, <<>>)
        IN /\ card.forecastAmount = detail.baseForecast
           /\ card.forecastVariance = detail.plusMinus

\* C22: on the Dashboard's goal card the amount left to the goal is not
\* negative, the percentage label does not exceed 100, and the label is the
\* (clamped) width of the progress bar, rounded.
C22_GoalCardInRange ==
    currentScreen = "dashboard" =>
        LET card == DashboardScreen(weeklyGoal)
            bar == GoalBarWidth(weeklyGoal)
        IN /\ card.remaining >= 0
           /\ card.goalPercent <= 100
           /\ card.goalPercent = MathRound(bar[1], bar[2])

---------------------------------------------------------------------------
(* Properties: the session after onboarding *)

\* C23: once a main screen is shown, no user action (navigation, saving a
\* goal, a toggle, Sign Out) leaves the five main screens; only loading the
\* page again, which constructs App anew, shows the login screen again.
C23_NoWayBackToLogin ==
    [][ (MainScreenShown /\ ~Reload)
          => /\ MainScreenShown'
             /\ currentScreen' \notin {"login", "onboarding"}
             /\ userData' = userData ]_vars

\* the Profile screen, where Sign Out is, after a goal was saved and a
\* notification toggled in this session
C23_Witness ==
    /\ currentScreen = "profile"
    /\ profile.mounted
    /\ ~profile.notifications.insights
    /\ userData # <<>>
    /\ userData[1].weeklyGoal # weeklyGoal

===========================================================================
